---------------------------- MODULE Spec2Model ----------------------------
(***************************************************************************)
(* A model of roku.py, the Roku ECP command-line client: SSDP discovery    *)
(* (ssdp_discover), the header parser (parse_ssdp_headers), the host       *)
(* resolver (pick_host) and the command handlers.                          *)
(*                                                                         *)
(* Python strings are sequences of one-character strings.  None is a      *)
(* sentinel sequence that is no string.  Time is counted in whole seconds  *)
(* and passes only while the program is blocked in recvfrom.               *)
(***************************************************************************)
EXTENDS Integers, Sequences, FiniteSets, TLC

\* ------------------------------------------------------------------ bounds
MaxTimeout == 2
MaxNegTimeout == 1
MaxDatagrams == 2
MaxText == 2
MaxRawLen == 7

\* ------------------------------------------------------- program constants
DEFAULT_PORT == 8060
HTTP_OK == 200

VARIABLES
    args,        \* the argparse namespace: cmd, host, auto, timeout, raw, key, text
    env,         \* os.environ: ROKU_HOST, ROKU_DEV_TARGET
    lan,         \* the replies the devices on the network can send
    pc,          \* the statement the process is at
    host,        \* what pick_host returned (Unset before it returns)
    picks,       \* how many times pick_host was called
    sock,        \* the UDP socket of ssdp_discover: "none", "open", "closed"
    now,         \* time.time()
    start,       \* ssdp_discover's local start
    recvStart,   \* when the recvfrom in flight began to block
    inbox,       \* datagrams in the socket's receive buffer
    arrivals,    \* every datagram that reached the socket, in arrival order
    sent,        \* how many M-SEARCH datagrams were sent
    responses,   \* ssdp_discover's list responses
    timedOut,    \* whether a recvfrom ended by socket.timeout
    disc,        \* ssdp_discover: "idle", "running", "returned", "raised"
    requests,    \* the HTTP requests issued, in order
    answers,     \* the status answered to each request (0: none came)
    idx,         \* cmd_type's position in args.text
    out,         \* what was printed
    exit,        \* "running", "exit0", "exit1", or the exception that ended it
    rawText,     \* parser check: the raw response text
    parsed,      \* parser check: what parse_ssdp_headers gave
    parsePc      \* parser check: "build" or "parsed"

vars == <<args, env, lan, pc, host, picks, sock, now, start, recvStart, inbox,
          arrivals, sent, responses, timedOut, disc,
          requests, answers, idx, out, exit, rawText, parsed, parsePc>>

sysVars == <<args, env, lan, pc, host, picks, sock, now, start, recvStart, inbox,
             arrivals, sent, responses, timedOut, disc,
             requests, answers, idx, out, exit>>

parseVars == <<rawText, parsed, parsePc>>

\* ----------------------------------------------------------------- strings
None == <<"<None>">>
Unset == <<"<unset>">>

\* Python truthiness of an optional string: None and "" are false.
Truthy(s) == s # None /\ s # <<>>

UpperCase == <<"A","B","C","D","E","F","G","H","I","J","K","L","M",
               "N","O","P","Q","R","S","T","U","V","W","X","Y","Z">>
LowerCase == <<"a","b","c","d","e","f","g","h","i","j","k","l","m",
               "n","o","p","q","r","s","t","u","v","w","x","y","z">>
Digits == {"0","1","2","3","4","5","6","7","8","9"}

IsUpper(c) == \E i \in 1..Len(UpperCase) : UpperCase[i] = c
IsLower(c) == \E i \in 1..Len(LowerCase) : LowerCase[i] = c

lowerChar(c) ==
    IF IsUpper(c)
    THEN LowerCase[CHOOSE i \in 1..Len(UpperCase) : UpperCase[i] = c]
    ELSE c

\* str.lower()
lower(s) == [i \in 1..Len(s) |-> lowerChar(s[i])]

Whitespace == {" ", "\t", "\n", "\r", "\f"}

RECURSIVE lstrip(_)
lstrip(s) ==
    IF s # <<>> /\ s[1] \in Whitespace THEN lstrip(Tail(s)) ELSE s

RECURSIVE rstrip(_)
rstrip(s) ==
    IF s # <<>> /\ s[Len(s)] \in Whitespace
    THEN rstrip(SubSeq(s, 1, Len(s) - 1))
    ELSE s

\* str.strip()
strip(s) == rstrip(lstrip(s))

\* `c in s`
Contains(s, c) == \E i \in 1..Len(s) : s[i] = c

\* s.find(c) + 1: the first position of c in s, 0 when there is none
find(s, c) ==
    IF Contains(s, c)
    THEN CHOOSE i \in 1..Len(s) : s[i] = c /\ \A j \in 1..(i - 1) : s[j] # c
    ELSE 0

\* Mutant of split1: the split is made at the last colon (rsplit).
split1Last(s, c) ==
    LET P == {i \in 1..Len(s) : s[i] = c}
        p == IF P = {} THEN 0 ELSE CHOOSE i \in P : \A j \in P : j <= i
    IN  IF p = 0 THEN <<s>>
        ELSE <<SubSeq(s, 1, p - 1), SubSeq(s, p + 1, Len(s))>>

\* s.split(c, 1)
split1(s, c) ==
    LET p == find(s, c)
    IN  IF p = 0 THEN <<s>>
        ELSE <<SubSeq(s, 1, p - 1), SubSeq(s, p + 1, Len(s))>>

LineBreaks == {"\n", "\r", "\f"}

\* str.splitlines(): "\r\n" is one break, a final break opens no line.
RECURSIVE SplitFrom(_, _, _)
SplitFrom(s, i, cur) ==
    IF i > Len(s) THEN (IF cur = <<>> THEN <<>> ELSE <<cur>>)
    ELSE IF s[i] = "\r" /\ i < Len(s) /\ s[i + 1] = "\n"
         THEN <<cur>> \o SplitFrom(s, i + 2, <<>>)
    ELSE IF s[i] \in LineBreaks
         THEN <<cur>> \o SplitFrom(s, i + 1, <<>>)
    ELSE SplitFrom(s, i + 1, Append(cur, s[i]))

splitlines(s) == SplitFrom(s, 1, <<>>)

\* ------------------------------------------------------- parse_ssdp_headers
EmptyDict == [k \in {} |-> <<>>]

\* headers[key] = val
DictPut(d, key, val) ==
    [k \in (DOMAIN d) \cup {key} |-> IF k = key THEN val ELSE d[k]]

\* headers.get(key, default)
DictGet(d, key, default) == IF key \in DOMAIN d THEN d[key] ELSE default

\* The loop `for line in lines[1:]`.  `key, val = line.split(":", 1)` fails
\* to unpack (ValueError) when the split gives a single part.
RECURSIVE ParseLines(_, _, _)
ParseLines(lines, i, headers) ==
    IF i > Len(lines) THEN [ok |-> TRUE, headers |-> headers]
    ELSE IF ~Contains(lines[i], ":") THEN ParseLines(lines, i + 1, headers)
    ELSE LET parts == split1(lines[i], ":")
         IN  IF Len(parts) # 2 THEN [ok |-> FALSE, headers |-> headers]
             ELSE ParseLines(lines, i + 1,
                      DictPut(headers, lower(strip(parts[1])), strip(parts[2])))

parse_ssdp_headers(raw) == ParseLines(splitlines(raw), 2, EmptyDict)

\* ------------------------------------------------ the parser on every text
ParseAlphabet == {"K", "k", ":", " ", "\n"}

ExtendRaw ==
    /\ parsePc = "build"
    /\ Len(rawText) < MaxRawLen
    /\ \E c \in ParseAlphabet : rawText' = Append(rawText, c)
    /\ UNCHANGED <<parsed, parsePc>>
    /\ UNCHANGED sysVars

ParseRaw ==
    /\ parsePc = "build"
    /\ parsed' = parse_ssdp_headers(rawText)
    /\ parsePc' = "parsed"
    /\ UNCHANGED rawText
    /\ UNCHANGED sysVars

\* ------------------------------------------------------------ urllib.parse
SchemeChars ==
    {UpperCase[i] : i \in 1..Len(UpperCase)}
        \cup {LowerCase[i] : i \in 1..Len(LowerCase)}
        \cup Digits \cup {"+", "-", "."}

\* s up to, not including, the first character of stop
RECURSIVE TakeUntil(_, _)
TakeUntil(s, stop) ==
    IF s = <<>> \/ s[1] \in stop THEN <<>>
    ELSE <<s[1]>> \o TakeUntil(Tail(s), stop)

\* s after its last c (the whole of s when c is not in it)
RECURSIVE AfterLast(_, _)
AfterLast(s, c) ==
    IF Contains(s, c) THEN AfterLast(SubSeq(s, find(s, c) + 1, Len(s)), c)
    ELSE s

\* urlsplit(url).netloc: a scheme is cut off at the first colon when all
\* before it are scheme characters, and the network location is what
\* follows "//" up to the first of "/", "?" and "#".
urlNetloc(url) ==
    LET c == find(url, ":")
        hasScheme ==
            /\ c > 1
            /\ IsUpper(url[1]) \/ IsLower(url[1])
            /\ \A j \in 1..(c - 1) : url[j] \in SchemeChars
        rest == IF hasScheme THEN SubSeq(url, c + 1, Len(url)) ELSE url
    IN  IF Len(rest) >= 2 /\ rest[1] = "/" /\ rest[2] = "/"
        THEN TakeUntil(SubSeq(rest, 3, Len(rest)), {"/", "?", "#"})
        ELSE <<>>

\* what stands for an exception where a value is expected
Raised == <<"<raised>">>

\* urlparse(url).hostname.  urlparse raises ValueError("Invalid IPv6 URL")
\* when the network location holds one of "[" and "]" without the other.
\* The hostname is the network location without user information and port
\* (what is between the brackets, when there are brackets), lowercased;
\* None when it is empty.
hostname(url) ==
    LET netloc == urlNetloc(url)
        hostinfo == AfterLast(netloc, "@")
        h == IF Contains(hostinfo, "[")
             THEN TakeUntil(SubSeq(hostinfo, find(hostinfo, "[") + 1,
                                   Len(hostinfo)), {"]"})
             ELSE TakeUntil(hostinfo, {":"})
    IN  IF Contains(netloc, "[") # Contains(netloc, "]") THEN Raised
        ELSE IF h = <<>> THEN None
        ELSE lower(h)

QuoteSafe ==
    {UpperCase[i] : i \in 1..Len(UpperCase)}
        \cup {LowerCase[i] : i \in 1..Len(LowerCase)}
        \cup Digits \cup {"_", ".", "-", "~", "/"}

\* The "%XX" of a character quote() does not keep; the codes of characters
\* the inputs never draw are not told apart.
PercentCode(c) ==
    CASE c = " " -> <<"%", "2", "0">>
      [] c = ":" -> <<"%", "3", "A">>
      [] OTHER   -> <<"%", "?", "?">>

\* urllib.parse.quote(s)
RECURSIVE quote(_)
quote(s) ==
    IF s = <<>> THEN <<>>
    ELSE (IF s[1] \in QuoteSafe THEN <<s[1]>> ELSE PercentCode(s[1]))
             \o quote(Tail(s))

\* ------------------------------------------------------------------ inputs
S_location ==
    <<"l","o","c","a","t","i","o","n">>

S_usn ==
    <<"u","s","n">>

S_server ==
    <<"s","e","r","v","e","r">>

S_query_device_info ==
    <<"/","q","u","e","r","y","/","d","e","v","i","c","e","-","i","n","f",
      "o">>

S_query_apps ==
    <<"/","q","u","e","r","y","/","a","p","p","s">>

S_keypress ==
    <<"/","k","e","y","p","r","e","s","s","/">>

S_keydown ==
    <<"/","k","e","y","d","o","w","n","/">>

S_keyup ==
    <<"/","k","e","y","u","p","/">>

S_launch ==
    <<"/","l","a","u","n","c","h","/">>

S_Lit ==
    <<"L","i","t","_">>

\* a byte that is no valid UTF-8
BadByte == "<FF>"

DataFirstLineOnly ==
    <<"L","o","c","a","t","i","o","n",":"," ","h","t","t","p",":","/","/",
      "c","/","\r","\n","U","S","N",":"," ","x","\r","\n">>

DataBadLocation ==
    <<"O","K","\r","\n","L","O","C","A","T","I","O","N",":"," ","a",":","8",
      "/","\r","\n">>

DataEmptyLocation ==
    <<"O","K","\n","L","o","c","a","t","i","o","n",":","\n","S","e","r","v",
      "e","r",":"," ","r">>

DataLocationA ==
    <<"O","K","\r","\n","L","O","C","A","T","I","O","N",":"," ","h","t","t",
      "p",":","/","/","A",":","8","/","\r","\n","U","S","N",":"," ","x",
      "\r","\n">>

DataBracketLocation ==
    <<"O","K","\n","L","O","C","A","T","I","O","N",":"," ","h","t","t","p",
      ":","/","/","[",":",":","1","\n">>

DataLocationB ==
    <<"O","K","\n","l","o","c","a","t","i","o","n",":","h","t","t","p",":",
      "/","/",BadByte,"b","/">>

\* what recvfrom can give: (data, addr)
Datagrams ==
    { [addr |-> "10.0.0.4", data |-> DataFirstLineOnly],
      [addr |-> "10.0.0.4", data |-> DataBadLocation],
      [addr |-> "10.0.0.5", data |-> DataEmptyLocation],
      [addr |-> "10.0.0.6", data |-> DataBracketLocation],
      [addr |-> "10.0.0.5", data |-> DataLocationA],
      [addr |-> "10.0.0.6", data |-> DataLocationB] }

HostCmds == {"info", "apps", "keypress", "keydown", "keyup", "launch", "type"}
Cmds == {"discover"} \cup HostCmds

HostValues == {None, <<>>, <<"h">>}
RokuHostValues == {None, <<>>, <<"e">>}
RokuDevTargetValues == {None, <<>>, <<"d">>}
Timeouts == (0 - MaxNegTimeout)..MaxTimeout
TextAlphabet == {"a", " "}
Texts == UNION {[1..n -> TextAlphabet] : n \in 0..MaxText}
KeyName == <<"U", "p">>
AppId == <<"1", "2">>

\* The namespaces parse_args can give for cmd.  cmd_discover reads neither
\* args.host nor args.auto nor the environment: they are left unset for it.
ArgsFor(cmd) ==
    { [cmd |-> cmd, host |-> h, auto |-> a, timeout |-> t, raw |-> r,
       key |-> k, app_id |-> i, text |-> x] :
        h \in (IF cmd \in HostCmds THEN HostValues ELSE {None}),
        a \in (IF cmd \in HostCmds THEN BOOLEAN ELSE {FALSE}),
        t \in Timeouts,
        r \in (IF cmd = "info" THEN BOOLEAN ELSE {FALSE}),
        k \in (IF cmd \in {"keypress", "keydown", "keyup"}
               THEN {KeyName} ELSE {None}),
        i \in (IF cmd = "launch" THEN {AppId} ELSE {None}),
        x \in (IF cmd = "type" THEN Texts ELSE {None}) }

\* the statuses a device answers with
Statuses == {HTTP_OK, 404}

\* the exceptions no handler catches
Faults == {"OSError", "ValueError", "ParseError"}

\* ----------------------------------------------------------------- states
\* The state main() starts a command of cmds in, on a network of lans.
SysInit(cmds, lans) ==
    /\ args \in UNION {ArgsFor(c) : c \in cmds}
    /\ env \in (IF args.cmd \in HostCmds
                THEN [ROKU_HOST : RokuHostValues,
                      ROKU_DEV_TARGET : RokuDevTargetValues]
                ELSE {[ROKU_HOST |-> None, ROKU_DEV_TARGET |-> None]})
    /\ lan \in lans
    /\ pc = "entry"
    /\ host = Unset
    /\ picks = 0
    /\ sock = "none"
    /\ now = 0
    /\ start = 0
    /\ recvStart = 0
    /\ inbox = <<>>
    /\ arrivals = <<>>
    /\ sent = 0
    /\ responses = <<>>
    /\ timedOut = FALSE
    /\ disc = "idle"
    /\ requests = <<>>
    /\ answers = <<>>
    /\ idx = 1
    /\ out = <<>>
    /\ exit = "running"

ParseIdle ==
    /\ rawText = <<>>
    /\ parsed = [ok |-> TRUE, headers |-> EmptyDict]
    /\ parsePc = "idle"

\* ------------------------------------------------------------- ssdp_discover
\* data.decode("utf-8", "ignore"): the bytes that are no UTF-8 are dropped.
decode(data) == SelectSeq(data, LAMBDA b : b # BadByte)

\* sock.settimeout(timeout): the time one recvfrom may block
RecvTimeout == args.timeout

\* Mutant of Collected: a reply already in the list is not added again.
CollectedDedup(rs, d) ==
    IF \E i \in 1..Len(rs) : rs[i] = <<d.addr, decode(d.data)>>
    THEN rs
    ELSE Append(rs, <<d.addr, decode(d.data)>>)

\* responses.append((addr, data.decode("utf-8", "ignore")))
Collected(rs, d) == Append(rs, <<d.addr, decode(d.data)>>)

\* where the caller of ssdp_discover goes on
AfterDiscover == IF args.cmd = "discover" THEN "discover_print" ELSE "pick_scan"

\* socket.socket(...) raises OSError: no socket was acquired.
SsdpSocketFail ==
    /\ pc = "ssdp_socket"
    /\ disc' = "raised"
    /\ exit' = "OSError"
    /\ pc' = "done"
    /\ UNCHANGED <<args, env, lan, host, picks, sock, now, start, recvStart, inbox,
                   arrivals, sent, responses, timedOut, requests,
                   answers, idx, out>>
    /\ UNCHANGED parseVars

\* socket.socket(...), setsockopt, settimeout: a negative timeout makes
\* settimeout raise ValueError, with the socket already created.
SsdpSetup ==
    /\ pc = "ssdp_socket"
    /\ sock' = "open"
    /\ IF args.timeout < 0
       THEN /\ disc' = "raised"
                    /\ exit' = "ValueError"
            /\ pc' = "done"
       ELSE /\ disc' = "running"
            /\ pc' = "ssdp_send"
            /\ UNCHANGED exit
    /\ UNCHANGED <<args, env, lan, host, picks, now, start, recvStart, inbox,
                   arrivals, sent, responses, timedOut, requests,
                   answers, idx, out>>
    /\ UNCHANGED parseVars

\* sock.sendto(msg, SSDP_ADDR); responses = []; start = time.time()
SsdpSend ==
    /\ pc = "ssdp_send"
    /\ sent' = sent + 1
    /\ responses' = <<>>
    /\ start' = now
    /\ pc' = "ssdp_loop"
    /\ UNCHANGED <<args, env, lan, host, picks, sock, now, recvStart, inbox,
                   arrivals, timedOut, disc, requests,
                   answers, idx, out, exit>>
    /\ UNCHANGED parseVars

\* sock.sendto raises OSError.
SsdpSendFail ==
    /\ pc = "ssdp_send"
    /\ disc' = "raised"
    /\ exit' = "OSError"
    /\ pc' = "done"
    /\ UNCHANGED <<args, env, lan, host, picks, sock, now, start, recvStart, inbox,
                   arrivals, sent, responses, timedOut, requests,
                   answers, idx, out>>
    /\ UNCHANGED parseVars

\* while time.time() - start < timeout: ... sock.recvfrom(65535) is entered
SsdpLoop ==
    /\ pc = "ssdp_loop"
    /\ IF now - start < args.timeout
       THEN /\ pc' = "ssdp_recv"
            /\ recvStart' = now
       ELSE /\ pc' = "ssdp_return"
            /\ UNCHANGED recvStart
    /\ UNCHANGED <<args, env, lan, host, picks, sock, now, start, inbox, arrivals,
                   sent, responses, timedOut, disc, requests, answers,
                   idx, out, exit>>
    /\ UNCHANGED parseVars

\* The network: a reply reaches the socket's buffer.  A reply that comes in
\* between two receives is one that is there when the next receive starts.
Arrive ==
    /\ pc = "ssdp_recv"
    /\ sock = "open"
    /\ Len(arrivals) < MaxDatagrams
    /\ \E d \in lan :
          /\ inbox' = Append(inbox, d)
          /\ arrivals' = Append(arrivals, d)
    /\ UNCHANGED <<args, env, lan, pc, host, picks, sock, now, start, recvStart,
                   sent, responses, timedOut, disc, requests,
                   answers, idx, out, exit>>
    /\ UNCHANGED parseVars

\* A second passes while recvfrom blocks on an empty buffer; the socket's
\* timeout lets it block no longer than RecvTimeout.
Tick ==
    /\ pc = "ssdp_recv"
    /\ inbox = <<>>
    /\ now - recvStart < RecvTimeout
    /\ now' = now + 1
    /\ UNCHANGED <<args, env, lan, pc, host, picks, sock, start, recvStart, inbox,
                   arrivals, sent, responses, timedOut, disc,
                   requests, answers, idx, out, exit>>
    /\ UNCHANGED parseVars

\* data, addr = sock.recvfrom(65535) returns; responses.append(...)
SsdpRecv ==
    /\ pc = "ssdp_recv"
    /\ inbox # <<>>
    /\ responses' = Collected(responses, Head(inbox))
    /\ inbox' = Tail(inbox)
    /\ pc' = "ssdp_loop"
    /\ UNCHANGED <<args, env, lan, host, picks, sock, now, start, recvStart,
                   arrivals, sent, timedOut, disc, requests,
                   answers, idx, out, exit>>
    /\ UNCHANGED parseVars

\* Mutant of SsdpRecvTimeout: socket.timeout is not caught.
SsdpRecvTimeoutUncaught ==
    /\ pc = "ssdp_recv"
    /\ inbox = <<>>
    /\ now - recvStart >= RecvTimeout
    /\ timedOut' = TRUE
    /\ disc' = "raised"
    /\ exit' = "OSError"
    /\ pc' = "done"
    /\ UNCHANGED <<args, env, lan, host, picks, sock, now, start, recvStart,
                   inbox, arrivals, sent, responses, requests, answers, idx,
                   out>>
    /\ UNCHANGED parseVars

\* except socket.timeout: break
SsdpRecvTimeout ==
    /\ pc = "ssdp_recv"
    /\ inbox = <<>>
    /\ now - recvStart >= RecvTimeout
    /\ timedOut' = TRUE
    /\ pc' = "ssdp_return"
    /\ UNCHANGED <<args, env, lan, host, picks, sock, now, start, recvStart, inbox,
                   arrivals, sent, responses, disc, requests,
                   answers, idx, out, exit>>
    /\ UNCHANGED parseVars

\* recvfrom raises an OSError that is no timeout: nothing catches it.
SsdpRecvError ==
    /\ pc = "ssdp_recv"
    /\ disc' = "raised"
    /\ exit' = "OSError"
    /\ pc' = "done"
    /\ UNCHANGED <<args, env, lan, host, picks, sock, now, start, recvStart, inbox,
                   arrivals, sent, responses, timedOut, requests,
                   answers, idx, out>>
    /\ UNCHANGED parseVars

\* return responses.  The locals start and sock go out of scope; no
\* statement closes the socket: whether it is still open when the caller
\* goes on is up to the runtime's reclamation.
SsdpReturn ==
    /\ pc = "ssdp_return"
    /\ disc' = "returned"
    /\ sock' \in {"open", "closed"}
    /\ start' = 0
    /\ recvStart' = 0
    /\ pc' = AfterDiscover
    /\ UNCHANGED <<args, env, lan, host, picks, now, inbox, arrivals, sent,
                   responses, timedOut, requests, answers, idx, out, exit>>
    /\ UNCHANGED parseVars

\* ----------------------------------------------------------------- pick_host
\* os.environ.get("ROKU_HOST") or os.environ.get("ROKU_DEV_TARGET")
env_host ==
    IF Truthy(env.ROKU_HOST) THEN env.ROKU_HOST ELSE env.ROKU_DEV_TARGET

\* Mutant of PickSource: --auto is looked at before the environment.
PickSourceAutoFirst ==
    IF Truthy(args.host) THEN "host"
    ELSE IF args.auto THEN "auto"
    ELSE IF Truthy(env_host) THEN "env"
    ELSE "none"

\* Which branch of pick_host is taken.
PickSource ==
    IF Truthy(args.host) THEN "host"
    ELSE IF Truthy(env_host) THEN "env"
    ELSE IF args.auto THEN "auto"
    ELSE "none"

\* pick_host up to its return or its call of ssdp_discover
PickHost ==
    /\ pc = "entry"
    /\ args.cmd \in HostCmds
    /\ picks' = picks + 1
    /\ CASE PickSource = "host" -> host' = args.host /\ pc' = "cmd"
         [] PickSource = "env"  -> host' = env_host /\ pc' = "cmd"
         [] PickSource = "auto" -> host' = host /\ pc' = "ssdp_socket"
         [] OTHER               -> host' = None /\ pc' = "cmd"
    /\ UNCHANGED <<args, env, lan, sock, now, start, recvStart, inbox, arrivals,
                   sent, responses, timedOut, disc, requests,
                   answers, idx, out, exit>>
    /\ UNCHANGED parseVars

\* for _addr, text in responses: ... return parsed.hostname; return None.
\* An exception of urlparse ends the loop and pick_host.
RECURSIVE ScanResponses(_, _)
ScanResponses(rs, i) ==
    IF i > Len(rs) THEN None
    ELSE LET r == parse_ssdp_headers(rs[i][2])
             loc == DictGet(r.headers, S_location, None)
         IN  IF ~r.ok THEN Raised
             ELSE IF ~Truthy(loc) THEN ScanResponses(rs, i + 1)
             ELSE IF hostname(loc) = Raised THEN Raised
             ELSE IF Truthy(hostname(loc)) THEN hostname(loc)
             ELSE ScanResponses(rs, i + 1)

\* pick_host after ssdp_discover returned: the loop over responses
PickScan ==
    /\ pc = "pick_scan"
    /\ LET h == ScanResponses(responses, 1)
       IN  IF h = Raised
           THEN /\ exit' = "ValueError"
                /\ pc' = "done"
                /\ host' = host
           ELSE /\ host' = h
                /\ pc' = "pick_return"
                /\ exit' = exit
    /\ UNCHANGED <<args, env, lan, picks, sock, now, start, recvStart, inbox,
                   arrivals, sent, responses, timedOut, disc, requests,
                   answers, idx, out>>
    /\ UNCHANGED parseVars

\* pick_host returns to the command.  The discovery session is over: the
\* list responses goes out of scope, and what the socket saw is forgotten.
PickReturn ==
    /\ pc = "pick_return"
    /\ responses' = <<>>
    /\ arrivals' = <<>>
    /\ inbox' = <<>>
    /\ pc' = "cmd"
    /\ UNCHANGED <<args, env, lan, host, picks, sock, now, start, recvStart, sent,
                   timedOut, disc, requests, answers, idx, out, exit>>
    /\ UNCHANGED parseVars

\* ------------------------------------------------------------ the commands
\* Mutant of NoHost: the check of the host is left out.
NoHostSkipped == FALSE

\* `if not host`
NoHost == ~Truthy(host)

\* print("No Roku host set. ..."); return 1
ReportNoHost ==
    /\ out' = Append(out, <<"No Roku host set", <<>>>>)
    /\ exit' = "exit1"
    /\ pc' = "done"
    /\ UNCHANGED <<requests, answers, idx>>

\* print(f"HTTP {status} from {host}"); return 1
ReportStatus(st) ==
    /\ out' = Append(out, <<"HTTP", st>>)
    /\ exit' = "exit1"
    /\ pc' = "done"

\* return 0, after printing what
Succeed(what) ==
    /\ out' = (IF what = <<>> THEN out ELSE Append(out, what))
    /\ exit' = "exit0"
    /\ pc' = "done"

\* ecp_get / ecp_post: one request to host:8060, answered with status st
Issue(method, path, st) ==
    /\ requests' = Append(requests, [method |-> method, host |-> host,
                                     port |-> DEFAULT_PORT, path |-> path])
    /\ answers' = Append(answers, st)

cmdFrame == <<args, env, lan, host, picks, sock, now, start, recvStart, inbox,
              arrivals, sent, responses, timedOut, disc>>

\* cmd_discover up to its call of ssdp_discover
cmd_discover_call ==
    /\ pc = "entry"
    /\ args.cmd = "discover"
    /\ pc' = "ssdp_socket"
    /\ UNCHANGED <<args, env, lan, host, picks, sock, now, start, recvStart, inbox,
                   arrivals, sent, responses, timedOut, disc,
                   requests, answers, idx, out, exit>>
    /\ UNCHANGED parseVars

\* the lines cmd_discover prints for responses i, i+1, ...
RECURSIVE DiscoverLines(_, _)
DiscoverLines(rs, i) ==
    IF i > Len(rs) THEN <<>>
    ELSE LET r == parse_ssdp_headers(rs[i][2])
             loc == DictGet(r.headers, S_location, <<>>)
             usn == DictGet(r.headers, S_usn, <<>>)
             server == DictGet(r.headers, S_server, <<>>)
             rest == DiscoverLines(rs, i + 1)
         IN  IF ~r.ok \/ rest = Raised THEN Raised
             ELSE <<<<"----", <<>>>>, <<"From", rs[i][1]>>>>
                    \o (IF loc # <<>> THEN <<<<"Location", loc>>>> ELSE <<>>)
                    \o (IF usn # <<>> THEN <<<<"USN", usn>>>> ELSE <<>>)
                    \o (IF server # <<>> THEN <<<<"Server", server>>>> ELSE <<>>)
                    \o rest

\* cmd_discover after ssdp_discover returned
cmd_discover_report ==
    /\ pc = "discover_print"
    /\ IF responses = <<>>
       THEN /\ out' = Append(out, <<"No Roku SSDP responses found.", <<>>>>)
            /\ exit' = "exit1"
       ELSE LET lines == DiscoverLines(responses, 1)
            IN  IF lines = Raised
                THEN out' = out /\ exit' = "ValueError"
                ELSE out' = out \o lines /\ exit' = "exit0"
    /\ pc' = "done"
    /\ UNCHANGED cmdFrame
    /\ UNCHANGED <<requests, answers, idx>>
    /\ UNCHANGED parseVars

\* cmd_info.  ET.fromstring raises ParseError on a body that is no XML.
cmd_info ==
    /\ pc = "cmd"
    /\ args.cmd = "info"
    /\ IF NoHost THEN ReportNoHost
       ELSE \E st \in Statuses, wellFormed \in BOOLEAN :
              /\ Issue("GET", S_query_device_info, st)
              /\ idx' = idx
              /\ IF st # HTTP_OK THEN ReportStatus(st)
                 ELSE IF args.raw THEN Succeed(<<"body", <<>>>>)
                 ELSE IF ~wellFormed
                      THEN out' = out /\ exit' = "ParseError" /\ pc' = "done"
                 ELSE Succeed(<<"fields", <<>>>>)
    /\ UNCHANGED cmdFrame
    /\ UNCHANGED parseVars

\* cmd_apps
cmd_apps ==
    /\ pc = "cmd"
    /\ args.cmd = "apps"
    /\ IF NoHost THEN ReportNoHost
       ELSE \E st \in Statuses, wellFormed \in BOOLEAN :
              /\ Issue("GET", S_query_apps, st)
              /\ idx' = idx
              /\ IF st # HTTP_OK THEN ReportStatus(st)
                 ELSE IF ~wellFormed
                      THEN out' = out /\ exit' = "ParseError" /\ pc' = "done"
                 ELSE Succeed(<<"apps", <<>>>>)
    /\ UNCHANGED cmdFrame
    /\ UNCHANGED parseVars

\* The body cmd_keypress, cmd_keydown, cmd_keyup and cmd_launch share.
PostCommand(cmd, path) ==
    /\ pc = "cmd"
    /\ args.cmd = cmd
    /\ IF NoHost THEN ReportNoHost
       ELSE \E st \in Statuses :
              /\ Issue("POST", path, st)
              /\ idx' = idx
              /\ IF st # HTTP_OK THEN ReportStatus(st) ELSE Succeed(<<>>)
    /\ UNCHANGED cmdFrame
    /\ UNCHANGED parseVars

cmd_keypress == PostCommand("keypress", S_keypress \o quote(args.key))

cmd_keydown == PostCommand("keydown", S_keydown \o quote(args.key))

cmd_keyup == PostCommand("keyup", S_keyup \o quote(args.key))

cmd_launch == PostCommand("launch", S_launch \o quote(args.app_id))

\* f"/keypress/{lit}" with lit = "Lit_" + urllib.parse.quote(ch)
LitPath(ch) == S_keypress \o S_Lit \o quote(<<ch>>)

\* Mutant of cmd_type: a status other than 200 is printed and the loop
\* goes on (the return is missing).
cmd_type_no_return ==
    /\ pc = "cmd"
    /\ args.cmd = "type"
    /\ IF NoHost THEN ReportNoHost
       ELSE IF idx > Len(args.text)
       THEN Succeed(<<>>) /\ UNCHANGED <<requests, answers, idx>>
       ELSE \E st \in Statuses :
              /\ Issue("POST", LitPath(args.text[idx]), st)
              /\ idx' = idx + 1
              /\ out' = (IF st # HTTP_OK THEN Append(out, <<"HTTP", st>>)
                         ELSE out)
              /\ UNCHANGED <<exit, pc>>
    /\ UNCHANGED cmdFrame
    /\ UNCHANGED parseVars

\* cmd_type: the host check, then one turn of `for ch in args.text` a step
cmd_type ==
    /\ pc = "cmd"
    /\ args.cmd = "type"
    /\ IF NoHost THEN ReportNoHost
       ELSE IF idx > Len(args.text)
       THEN Succeed(<<>>) /\ UNCHANGED <<requests, answers, idx>>
       ELSE \E st \in Statuses :
              /\ Issue("POST", LitPath(args.text[idx]), st)
              /\ IF st # HTTP_OK
                 THEN ReportStatus(st) /\ idx' = idx
                 ELSE /\ idx' = idx + 1
                      /\ UNCHANGED <<out, exit, pc>>
    /\ UNCHANGED cmdFrame
    /\ UNCHANGED parseVars

\* the request the command at pc = "cmd" would issue next
NextRequest ==
    CASE args.cmd = "info" -> <<"GET", S_query_device_info>>
      [] args.cmd = "apps" -> <<"GET", S_query_apps>>
      [] args.cmd = "keypress" -> <<"POST", S_keypress \o quote(args.key)>>
      [] args.cmd = "keydown" -> <<"POST", S_keydown \o quote(args.key)>>
      [] args.cmd = "keyup" -> <<"POST", S_keyup \o quote(args.key)>>
      [] args.cmd = "launch" -> <<"POST", S_launch \o quote(args.app_id)>>
      [] OTHER -> <<"POST", LitPath(args.text[idx])>>

\* conn.request or conn.getresponse raises (connection refused, the 5 s
\* timeout): nothing catches it.  The request may have gone out or not.
EcpTransportFail ==
    /\ pc = "cmd"
    /\ ~NoHost
    /\ args.cmd = "type" => idx <= Len(args.text)
    /\ \E issued \in BOOLEAN :
          IF issued
          THEN Issue(NextRequest[1], NextRequest[2], 0)
          ELSE UNCHANGED <<requests, answers>>
    /\ exit' = "OSError"
    /\ pc' = "done"
    /\ UNCHANGED <<idx, out>>
    /\ UNCHANGED cmdFrame
    /\ UNCHANGED parseVars

\* ---------------------------------------------------------- specifications
Discovery ==
    \/ SsdpSocketFail
    \/ SsdpSetup
    \/ SsdpSend
    \/ SsdpSendFail
    \/ SsdpLoop
    \/ Arrive
    \/ Tick
    \/ SsdpRecv
    \/ SsdpRecvTimeout
    \/ SsdpRecvError
    \/ SsdpReturn

Resolution ==
    \/ PickHost
    \/ PickScan
    \/ PickReturn

\* Every command, on a network where one device answers.
QuietLans == {{[addr |-> "10.0.0.4", data |-> DataBadLocation]},
              {[addr |-> "10.0.0.5", data |-> DataLocationA]}}

Init == SysInit(Cmds, QuietLans) /\ ParseIdle

Next ==
    \/ cmd_discover_call
    \/ cmd_discover_report
    \/ Resolution
    \/ Discovery
    \/ cmd_info
    \/ cmd_apps
    \/ cmd_keypress
    \/ cmd_keydown
    \/ cmd_keyup
    \/ cmd_launch
    \/ cmd_type
    \/ EcpTransportFail

Spec == Init /\ [][Next]_vars

\* The discover command, on a network where every kind of reply can come.
InitDiscover == SysInit({"discover"}, {Datagrams}) /\ ParseIdle

NextDiscover ==
    \/ cmd_discover_call
    \/ cmd_discover_report
    \/ Discovery

SpecDiscover == InitDiscover /\ [][NextDiscover]_vars

\* Host resolution for one command, on a network where every kind of reply
\* can come.
InitPick == SysInit({"keypress"}, {Datagrams}) /\ ParseIdle

NextPick ==
    \/ Resolution
    \/ Discovery
    \/ cmd_keypress
    \/ EcpTransportFail

SpecPick == InitPick /\ [][NextPick]_vars

\* The parser alone, on every text over ParseAlphabet up to MaxRawLen.
InitParse ==
    /\ SysInit({"discover"}, {{}})
    /\ args.timeout = 0
    /\ rawText = <<>>
    /\ parsed = [ok |-> TRUE, headers |-> EmptyDict]
    /\ parsePc = "build"

NextParse == ExtendRaw \/ ParseRaw

SpecParse == InitParse /\ [][NextParse]_vars

\* ------------------------------------------------------------------ claims
\* the datagrams recvfrom has handed to the program, in arrival order
Received == SubSeq(arrivals, 1, Len(arrivals) - Len(inbox))

\* the entry ssdp_discover is to hold for datagram d
EntryOf(d) == <<d.addr, decode(d.data)>>

NoStaticSource ==
    /\ ~Truthy(args.host)
    /\ ~Truthy(env.ROKU_HOST)
    /\ ~Truthy(env.ROKU_DEV_TARGET)

\* C1: pick_host takes the first of --host, ROKU_HOST, ROKU_DEV_TARGET that
\* is non-empty, whatever --auto is, and then never starts discovery (no
\* socket, no datagram sent); discovery runs only when all three are absent
\* or empty and --auto is set.
C1_SourcePriority ==
    args.cmd \in HostCmds =>
        /\ Truthy(args.host) =>
              /\ sent = 0 /\ sock = "none" /\ disc = "idle"
              /\ pc # "entry" => host = args.host
        /\ (~Truthy(args.host) /\ Truthy(env.ROKU_HOST)) =>
              /\ sent = 0 /\ sock = "none" /\ disc = "idle"
              /\ pc # "entry" => host = env.ROKU_HOST
        /\ (~Truthy(args.host) /\ ~Truthy(env.ROKU_HOST)
                /\ Truthy(env.ROKU_DEV_TARGET)) =>
              /\ sent = 0 /\ sock = "none" /\ disc = "idle"
              /\ pc # "entry" => host = env.ROKU_DEV_TARGET
        /\ (sent > 0 \/ sock # "none" \/ disc # "idle") =>
              NoStaticSource /\ args.auto
        /\ (NoStaticSource /\ ~args.auto /\ pc # "entry") => host = None

\* C1 witness: --host, both variables and --auto are all set, and the
\* command ran against --host.
C1_Witness ==
    /\ args.cmd \in HostCmds
    /\ Truthy(args.host)
    /\ Truthy(env.ROKU_HOST)
    /\ Truthy(env.ROKU_DEV_TARGET)
    /\ args.auto
    /\ host = args.host
    /\ exit = "exit0"
    /\ sent = 0

\* C2 (as the spec states it): with a positive timeout T, ssdp_discover is
\* never past T seconds after the query was sent, neither blocked in a
\* receive nor about to return.
C2_NeverPastTimeout ==
    (args.timeout > 0 /\ disc = "running" /\ sent > 0) =>
        now - start <= args.timeout

\* C3 (as the spec states it, for the timeouts settimeout accepts): once
\* ssdp_discover has returned or raised, no socket it acquired is still open.
C3_SocketReleased ==
    (args.timeout >= 0 /\ disc \in {"returned", "raised"}) => sock # "open"

\* C4 (as the spec states it): with a timeout that is zero or negative,
\* ssdp_discover raises no ValueError, enters no receive, and what it returns
\* is empty.
C4_NonPositiveTimeout ==
    args.timeout <= 0 =>
        /\ exit # "ValueError"
        /\ pc # "ssdp_recv"
        /\ disc = "returned" => responses = <<>>

\* C5: for info, apps, keypress, keydown, keyup, launch and type, when
\* pick_host returned no host the command issues no HTTP request and ends by
\* returning exit code 1, not by an exception.
C5_NoHostExit ==
    (args.cmd \in HostCmds /\ host = None) =>
        /\ requests = <<>>
        /\ answers = <<>>
        /\ exit \in {"running", "exit1"}
        /\ pc = "done" => exit = "exit1"

\* C5 witness: type, with text to send, ended with exit code 1 after a
\* discovery that gave no host.
C5_Witness ==
    /\ args.cmd = "type"
    /\ Len(args.text) > 0
    /\ disc = "returned"
    /\ host = None
    /\ pc = "done"
    /\ exit = "exit1"

\* whether response r has a location header that is non-empty and parses to
\* a hostname
Qualifies(r) ==
    LET h == parse_ssdp_headers(r[2]).headers
    IN  /\ S_location \in DOMAIN h
        /\ h[S_location] # <<>>
        /\ hostname(h[S_location]) \notin {None, Raised}

\* C6 (as the spec states it): once ssdp_discover has returned to pick_host,
\* pick_host returns, without an exception, the hostname of the first
\* response, in arrival order, whose location is present, non-empty and
\* parses to a hostname, and no host when no response qualifies.
C6_FirstViable ==
    /\ (args.cmd \in HostCmds /\ disc = "returned") => exit # "ValueError"
    /\ pc = "pick_return" =>
          LET Q == {i \in 1..Len(responses) : Qualifies(responses[i])}
          IN  IF Q = {} THEN host = None
              ELSE LET first == CHOOSE i \in Q : \A j \in Q : i <= j
                   IN  host = hostname(parse_ssdp_headers(
                                  responses[first][2]).headers[S_location])

\* C7: a receive that times out ends the loop without an exception reaching
\* the caller, and what ssdp_discover returns is every response collected
\* before it.
C7_TimeoutEndsLoop ==
    timedOut =>
        /\ disc \in {"running", "returned"}
        /\ exit \notin Faults
        /\ pc \notin {"ssdp_loop", "ssdp_recv"}
        /\ Len(responses) = Len(arrivals)
        /\ \A i \in 1..Len(arrivals) : responses[i] = EntryOf(arrivals[i])

\* C7 witness: ssdp_discover returned two responses after a receive timed
\* out.
C7_Witness ==
    /\ timedOut
    /\ disc = "returned"
    /\ Len(responses) = 2

\* C8: the list of ssdp_discover holds one entry per datagram received, in
\* arrival order, duplicates included: at every point it is the image of the
\* received prefix of the arrival sequence.
C8_OnePerDatagram ==
    /\ Len(responses) = Len(Received)
    /\ \A i \in 1..Len(Received) : responses[i] = EntryOf(Received[i])

\* C8 witness: the same reply came twice and ssdp_discover returned both.
C8_Witness ==
    /\ disc = "returned"
    /\ Len(responses) = 2
    /\ arrivals[1] = arrivals[2]
    /\ responses[1] = responses[2]

\* the lines of rawText after the first that hold a colon
HeaderLines ==
    {i \in 2..Len(splitlines(rawText)) : Contains(splitlines(rawText)[i], ":")}

FirstColon(line) == CHOOSE p \in 1..Len(line) :
                        line[p] = ":" /\ \A q \in 1..(p - 1) : line[q] # ":"

KeyOfLine(i) ==
    LET line == splitlines(rawText)[i]
    IN  lower(strip(SubSeq(line, 1, FirstColon(line) - 1)))

ValueOfLine(i) ==
    LET line == splitlines(rawText)[i]
    IN  strip(SubSeq(line, FirstColon(line) + 1, Len(line)))

\* C9: parse_ssdp_headers never fails; its keys are the trimmed, lowercased
\* text before the first colon of every line after the first that has a
\* colon, each with the trimmed text after that colon of the last such line,
\* and no key holds an uppercase letter.
C9_HeaderMap ==
    parsePc = "parsed" =>
        /\ parsed.ok
        /\ DOMAIN parsed.headers = {KeyOfLine(i) : i \in HeaderLines}
        /\ \A k \in DOMAIN parsed.headers :
              /\ \A j \in 1..Len(k) : ~IsUpper(k[j])
              /\ LET last == CHOOSE i \in HeaderLines :
                                 /\ KeyOfLine(i) = k
                                 /\ \A j \in HeaderLines :
                                        KeyOfLine(j) = k => j <= i
                 IN  parsed.headers[k] = ValueOfLine(last)

\* C9 witness: a text whose first line is skipped and whose two header lines
\* give the same key in different casing with different values.
C9_Witness ==
    /\ parsePc = "parsed"
    /\ \E i, j \in HeaderLines :
          /\ i < j
          /\ KeyOfLine(i) = KeyOfLine(j)
          /\ ValueOfLine(i) # ValueOfLine(j)
          /\ \E q \in 1..Len(splitlines(rawText)[i]) :
                IsUpper(splitlines(rawText)[i][q])
          /\ parsed.headers[KeyOfLine(j)] = ValueOfLine(j)

\* pick_host has returned a host
HostFound == host \notin {Unset, None, <<>>}

\* C10: type resolves the host once and issues the keypress POSTs of a
\* prefix of the text, in order; every request but the last was answered
\* 200; it ends with exit code 1 at the first other status, and with exit
\* code 0 exactly when every character was sent and answered 200.
C10_TypePrefix ==
    args.cmd = "type" =>
        /\ picks = (IF pc = "entry" THEN 0 ELSE 1)
        /\ Len(answers) = Len(requests)
        /\ requests # <<>> => Len(requests) <= Len(args.text)
        /\ \A i \in 1..Len(requests) :
              requests[i] = [method |-> "POST", host |-> host,
                             port |-> DEFAULT_PORT,
                             path |-> S_keypress \o S_Lit
                                        \o quote(<<args.text[i]>>)]
        /\ \A i \in 1..(Len(requests) - 1) : answers[i] = HTTP_OK
        /\ exit = "exit0" <=>
              /\ pc = "done"
              /\ HostFound
              /\ Len(requests) = Len(args.text)
              /\ \A i \in 1..Len(requests) : answers[i] = HTTP_OK
        /\ (exit = "exit1" /\ HostFound) =>
              /\ requests # <<>>
              /\ answers[Len(answers)] \notin {HTTP_OK, 0}

\* C10 witness: the first of two characters was answered 404; type ended
\* with exit code 1 and the second character was never sent.
C10_Witness ==
    /\ args.cmd = "type"
    /\ Len(args.text) = 2
    /\ Len(requests) = 1
    /\ answers[1] = 404
    /\ exit = "exit1"
    /\ pc = "done"

=============================================================================
